---- MODULE Spec2Model ----
(***************************************************************************)
(* dbt-meta: metadata queries over a dbt manifest.                         *)
(*                                                                         *)
(* The components of src/dbt_meta are modelled with one specification     *)
(* each over the shared variables:                                         *)
(*   SpecLineage  parents()/children() and the recursive relation walk     *)
(*                (_build_relation_tree, _flatten_tree_to_compact)         *)
(*   SpecGateway  the BigQuery CLI wrappers of utils/bigquery.py           *)
(*   Spec         the schema()/columns() lookups with their three-level    *)
(*                fallback (production manifest, dev manifest, BigQuery)   *)
(*   SpecParse    the same lookups over manifest files that may not load   *)
(*   SpecNaming   schema() over the node fields and naming strategies      *)
(*   SpecManifestOnly  sql(), path(), deps(), parents(), children() up to  *)
(*                the resolution of the model in the manifests             *)
(*   SpecLocate   ManifestFinder.find and get_manifest_path of cli.py      *)
(*   SpecCache    the lru_cache around ManifestParser                      *)
(***************************************************************************)
EXTENDS Naturals, Sequences, FiniteSets, Bags, TLC

VARIABLES
    \* ---- manifest graph and one lineage request (commands.py 1797-2307)
    parent_map,     \* manifest['parent_map']: unique_id -> list of unique_id
    child_map,      \* manifest['child_map']
    res_type,       \* unique_id -> resource_type, "absent" if in neither nodes nor sources
    direction,      \* "parents" | "children" (which command runs), "none" before
    recursive,      \* the command's recursive flag
    json_output,    \* the command's json_output flag
    visited,        \* the visited set shared by one top-level _build_relation_tree call
    stack,          \* active _build_relation_tree frames, innermost last
    expand_log,     \* unique_ids in the order their relations were expanded
    tree,           \* value returned by the top-level _build_relation_tree call
    output,         \* value returned by parents()/children()
    lw_pc,          \* "idle" | "walk" | "done"
    \* ---- BigQuery CLI environment and one gateway call (utils/bigquery.py)
    bq_version,     \* outcome of `bq version`
    bq_show,        \* outcomes of successive `bq show` invocations
    gw_op,          \* which gateway function ran
    gw_result,      \* its return value
    gw_calls,       \* the bq invocations it made, in order
    gw_sleeps,      \* the time.sleep() arguments it issued, in order
    \* ---- manifests, environment and one lookup (commands.py 923-1227)
    prod_manifest,  \* model name -> "absent" | "documented" | "undocumented"
    dev_manifest,   \* same for target/manifest.json
    dev_found,      \* whether _find_dev_manifest locates target/manifest.json
    fallback_target,    \* DBT_FALLBACK_TARGET
    fallback_bigquery,  \* DBT_FALLBACK_BIGQUERY
    git_ok,         \* whether the git commands of is_modified run
    git_changed,    \* table names found in the changed or new .sql paths git lists
    cmd,            \* "schema" | "columns", "none" before the first lookup
    req_model,      \* model_name of the lookup
    use_dev,        \* the lookup's use_dev flag
    result,         \* the lookup's return value
    warnings,       \* structured warnings printed by the lookup, in order
    consulted,      \* manifests whose get_model() the lookup called, in order
    glob_matches,   \* number of files glob finds for models/**/*<table>*.sql
    prod_parses,    \* whether the production manifest file loads
    dev_parses,     \* whether target/manifest.json loads
    node_database,  \* "database" of the manifest nodes, <<>> when empty
    node_alias,     \* config.alias of the manifest nodes, <<>> when not set
    config_schema,  \* config.schema of the manifest nodes, <<>> when not set
    schema_source,  \* DBT_PROD_SCHEMA_SOURCE
    table_name_strategy,    \* DBT_PROD_TABLE_NAME
    \* ---- the file system and one manifest location (manifest/finder.py, cli.py)
    fs,             \* the manifest.json paths that exist
    env_manifest,   \* whether DBT_MANIFEST_PATH is set
    env_project,    \* whether DBT_PROJECT_PATH is set
    loc_op,         \* "find" | "get_manifest_path", "none" before the call
    loc_args,       \* the call's arguments
    loc_result,     \* what the call returned or raised
    \* ---- the parser cache of the process (commands.py 20-34)
    parser_cache,   \* cached (path, parser object) pairs, least recently used first
    next_object,    \* identity of the next ManifestParser constructed
    load_log        \* the loads made so far: path, object returned, file read or not

lvars == <<parent_map, child_map, res_type, direction, recursive, json_output,
           visited, stack, expand_log, tree, output, lw_pc>>
gvars == <<bq_version, bq_show, gw_op, gw_result, gw_calls, gw_sleeps>>
evars == <<glob_matches, prod_parses, dev_parses, node_database, node_alias,
           config_schema, schema_source, table_name_strategy>>
fvars == <<prod_manifest, dev_manifest, dev_found, fallback_target,
           fallback_bigquery, git_ok, git_changed, cmd, req_model, use_dev, result,
           warnings, consulted, evars>>
mvars == <<fs, env_manifest, env_project, loc_op, loc_args, loc_result>>
cvars == <<parser_cache, next_object, load_log>>
vars == <<lvars, gvars, fvars, mvars, cvars>>

Range(s) == {s[i] : i \in 1..Len(s)}

(***************************************************************************)
(* Bounds of the model.                                                    *)
(***************************************************************************)
NumNodes == 3       \* unique_ids 1..NumNodes in the exhaustively drawn graphs
MaxEdges == 3       \* edges of parent_map in the exhaustively drawn graphs
DenseSize == 5      \* nodes of the complete graph (more than 20 tree nodes)

(***************************************************************************)
(* LINEAGE                                                                 *)
(***************************************************************************)
CompactThreshold == 20

Root == 1

\* relation_map.get(node_id, [])
Get(map, id) == IF id \in DOMAIN map THEN map[id] ELSE <<>>

\* The adjacency list of n given the edges es, in order of first appearance.
RECURSIVE AdjOf(_, _)
AdjOf(es, n) ==
    IF es = <<>> THEN <<>>
    ELSE LET rest == AdjOf(SubSeq(es, 1, Len(es) - 1), n)
             e == es[Len(es)]
         IN IF e[1] = n /\ e[2] \notin Range(rest) THEN Append(rest, e[2]) ELSE rest

\* dbt writes child_map as the inverse of parent_map.
RECURSIVE InverseList(_, _, _)
InverseList(map, n, k) ==
    IF k = 0 THEN <<>>
    ELSE LET rest == InverseList(map, n, k - 1)
         IN IF k \in DOMAIN map /\ n \in Range(map[k]) THEN Append(rest, k) ELSE rest

InverseMap(map) ==
    [n \in DOMAIN map |-> InverseList(map, n, Cardinality(DOMAIN map))]

SmallGraphs ==
    { [n \in 1..NumNodes |-> AdjOf(es, n)] :
        es \in UNION { [1..k -> (1..NumNodes) \X (1..NumNodes)] : k \in 0..MaxEdges } }

DenseGraph == [n \in 1..DenseSize |-> [i \in 1..DenseSize |-> i]]

\* The queried model is a model; the other nodes are models except the last,
\* which may also be a test or be missing from nodes and sources.
ResTypes(ids) ==
    LET last == Cardinality(ids)
    IN { [n \in ids |-> IF n = last /\ n # Root THEN k ELSE "model"] :
           k \in {"model", "test", "absent"} }

InitLineage ==
    /\ parent_map \in SmallGraphs \cup {DenseGraph}
    /\ child_map = InverseMap(parent_map)
    /\ res_type \in ResTypes(DOMAIN parent_map)
    /\ direction = "none"
    /\ recursive = FALSE
    /\ json_output = FALSE
    /\ visited = {}
    /\ stack = <<>>
    /\ expand_log = <<>>
    /\ tree = <<>>
    /\ output = <<>>
    /\ lw_pc = "idle"

relation_map == IF direction = "parents" THEN parent_map ELSE child_map

\* nodes.get(relation_id) or sources.get(relation_id)
NodeFound(id) == id \in DOMAIN res_type /\ res_type[id] # "absent"

\* The node_info dict of _build_relation_tree.  In json mode the node is
\* identified by its path/table (both derived from the node), otherwise by
\* its unique_id; name, database and schema are copied attributes, left out.
node_info(id, level, children) ==
    IF json_output
    THEN [path |-> id, type |-> res_type[id], level |-> level, children |-> children]
    ELSE [unique_id |-> id, type |-> res_type[id], level |-> level, children |-> children]

RECURSIVE _count_tree_nodes(_)
_count_tree_nodes(t) ==
    IF t = <<>> THEN 0
    ELSE LET node == Head(t)
         IN 1 + (IF node.children # <<>> THEN _count_tree_nodes(node.children) ELSE 0)
              + _count_tree_nodes(Tail(t))

\* Mutant: the children of a node are not flattened into the list.
_flatten_tree_top_only(t) ==
    [i \in 1..Len(t) |-> [path |-> t[i].path, type |-> t[i].type, level |-> t[i].level]]

RECURSIVE _flatten_tree_to_compact(_)
_flatten_tree_to_compact(t) ==
    IF t = <<>> THEN <<>>
    ELSE LET node == Head(t)
         IN <<[path |-> node.path, type |-> node.type, level |-> node.level]>>
            \o (IF node.children # <<>> THEN _flatten_tree_to_compact(node.children) ELSE <<>>)
            \o _flatten_tree_to_compact(Tail(t))

\* The non-recursive branch of parents()/children(): the direct relations in
\* the compact {path, table, type} format, with level 0 added above the threshold.
RECURSIVE DirectDetails(_)
DirectDetails(ids) ==
    IF ids = <<>> THEN <<>>
    ELSE LET id == Head(ids)
         IN (IF ~NodeFound(id) \/ res_type[id] = "test" THEN <<>>
             ELSE <<[path |-> id, type |-> res_type[id]]>>)
            \o DirectDetails(Tail(ids))

DirectOutput(ids, json) ==
    LET details == DirectDetails(ids)
    IN IF json /\ Len(details) > CompactThreshold
       THEN [i \in 1..Len(details) |->
               [path |-> details[i].path, type |-> details[i].type, level |-> 0]]
       ELSE details

\* parents()/children() up to the first _build_relation_tree call, for a
\* model found in the manifest.
StartCommand(dir) ==
    /\ lw_pc = "idle"
    /\ \E rec \in BOOLEAN, json \in BOOLEAN :
        /\ direction' = dir
        /\ recursive' = rec
        /\ json_output' = json
        /\ IF rec
           THEN /\ visited' = {Root}
                /\ expand_log' = <<Root>>
                /\ stack' = <<[node_id |-> Root, level |-> 0, i |-> 1, result |-> <<>>]>>
                /\ lw_pc' = "walk"
                /\ UNCHANGED output
           ELSE /\ output' = DirectOutput(Get(IF dir = "parents" THEN parent_map ELSE child_map, Root), json)
                /\ lw_pc' = "done"
                /\ UNCHANGED <<visited, expand_log, stack>>
    /\ UNCHANGED <<parent_map, child_map, res_type, tree, gvars, fvars, mvars, cvars>>

parents == StartCommand("parents")

children == StartCommand("children")

Top == stack[Len(stack)]

TopRelations == Get(relation_map, Top.node_id)

\* continue: on to the next relation, nothing appended
Continue(frame) == [frame EXCEPT !.i = @ + 1]

\* result.append(node_info), then on to the next relation
AppendInfo(frame, info) == [frame EXCEPT !.i = @ + 1, !.result = Append(@, info)]

ReplaceTop(frame) == [stack EXCEPT ![Len(stack)] = frame]

LoopReady == lw_pc = "walk" /\ stack # <<>> /\ Top.i <= Len(TopRelations)

\* for relation_id in relations: node missing from nodes and sources -> continue
SkipMissing ==
    /\ LoopReady
    /\ ~NodeFound(TopRelations[Top.i])
    /\ stack' = ReplaceTop(Continue(Top))
    /\ UNCHANGED <<parent_map, child_map, res_type, direction, recursive, json_output,
                   visited, expand_log, tree, output, lw_pc, gvars, fvars, mvars, cvars>>

\* resource_type == 'test' -> continue
SkipTest ==
    /\ LoopReady
    /\ NodeFound(TopRelations[Top.i])
    /\ res_type[TopRelations[Top.i]] = "test"
    /\ stack' = ReplaceTop(Continue(Top))
    /\ UNCHANGED <<parent_map, child_map, res_type, direction, recursive, json_output,
                   visited, expand_log, tree, output, lw_pc, gvars, fvars, mvars, cvars>>

\* Mutant: tests are not filtered out.
Listed_WithTests(id) == NodeFound(id)

\* A relation that gets a node_info: found, and not a test.
Listed(id) == NodeFound(id) /\ res_type[id] # "test"

\* Mutant: no visited check at all.
AlreadyVisited_Never(id) == FALSE

\* Mutant: the visited set is per branch (only the active callers count).
AlreadyVisited_BranchOnly(id) == \E k \in 1..Len(stack) : stack[k].node_id = id

\* if node_id in visited: return []
AlreadyVisited(id) == id \in visited

\* Mutant: a relation already visited is left out of the result.
AppendLeaf_Omit ==
    /\ LoopReady
    /\ Listed(TopRelations[Top.i])
    /\ AlreadyVisited(TopRelations[Top.i])
    /\ stack' = ReplaceTop(Continue(Top))
    /\ UNCHANGED <<parent_map, child_map, res_type, direction, recursive, json_output,
                   visited, expand_log, tree, output, lw_pc, gvars, fvars, mvars, cvars>>

\* The recursive call finds relation_id in visited and returns []: the
\* relation is appended with no children.
AppendLeaf ==
    /\ LoopReady
    /\ Listed(TopRelations[Top.i])
    /\ AlreadyVisited(TopRelations[Top.i])
    /\ stack' = ReplaceTop(AppendInfo(Top, node_info(TopRelations[Top.i], Top.level, <<>>)))
    /\ UNCHANGED <<parent_map, child_map, res_type, direction, recursive, json_output,
                   visited, expand_log, tree, output, lw_pc, gvars, fvars, mvars, cvars>>

\* The recursive call adds relation_id to visited and starts on its relations.
Descend ==
    /\ LoopReady
    /\ Listed(TopRelations[Top.i])
    /\ ~AlreadyVisited(TopRelations[Top.i])
    /\ visited' = visited \cup {TopRelations[Top.i]}
    /\ expand_log' = Append(expand_log, TopRelations[Top.i])
    /\ stack' = Append(stack, [node_id |-> TopRelations[Top.i], level |-> Top.level + 1,
                               i |-> 1, result |-> <<>>])
    /\ UNCHANGED <<parent_map, child_map, res_type, direction, recursive, json_output,
                   tree, output, lw_pc, gvars, fvars, mvars, cvars>>

\* A nested call returns its result: the caller appends node_info with it.
ReturnToCaller ==
    /\ lw_pc = "walk"
    /\ Len(stack) > 1
    /\ Top.i > Len(TopRelations)
    /\ LET caller == stack[Len(stack) - 1]
           rels == Get(relation_map, caller.node_id)
           info == node_info(rels[caller.i], caller.level, Top.result)
       IN stack' = Append(SubSeq(stack, 1, Len(stack) - 2), AppendInfo(caller, info))
    /\ UNCHANGED <<parent_map, child_map, res_type, direction, recursive, json_output,
                   visited, expand_log, tree, output, lw_pc, gvars, fvars, mvars, cvars>>

\* What parents()/children() return for the tree built.
CommandOutput(t, json) ==
    IF json /\ _count_tree_nodes(t) > CompactThreshold
    THEN _flatten_tree_to_compact(t)
    ELSE t

\* The top-level call returns and the command returns the tree or its
\* compact form.
ReturnTree ==
    /\ lw_pc = "walk"
    /\ Len(stack) = 1
    /\ Top.i > Len(TopRelations)
    /\ tree' = Top.result
    /\ output' = CommandOutput(Top.result, json_output)
    /\ stack' = <<>>
    /\ lw_pc' = "done"
    /\ UNCHANGED <<parent_map, child_map, res_type, direction, recursive, json_output,
                   visited, expand_log, gvars, fvars, mvars, cvars>>

(***************************************************************************)
(* Lineage claims.                                                         *)
(***************************************************************************)
\* The node a node_info or a compact entry stands for.
Key(info) == IF "path" \in DOMAIN info THEN info.path ELSE info.unique_id

\* The tree in pre-order: id, level and whether children were attached.
RECURSIVE PreOrder(_)
PreOrder(t) ==
    IF t = <<>> THEN <<>>
    ELSE LET node == Head(t)
         IN <<[id |-> Key(node), level |-> node.level, leaf |-> node.children = <<>>]>>
            \o PreOrder(node.children) \o PreOrder(Tail(t))

Occurrences(t, id) == Cardinality({i \in 1..Len(PreOrder(t)) : PreOrder(t)[i].id = id})

\* Walking the nested tree: the bag of <<node, level>> pairs.
RECURSIVE TreeBag(_)
TreeBag(t) ==
    IF t = <<>> THEN EmptyBag
    ELSE LET node == Head(t)
         IN SetToBag({<<Key(node), node.level>>}) (+) TreeBag(node.children)
            (+) TreeBag(Tail(t))

RECURSIVE FlatBag(_)
FlatBag(flat) ==
    IF flat = <<>> THEN EmptyBag
    ELSE SetToBag({<<Key(Head(flat)), Head(flat).level>>}) (+) FlatBag(Tail(flat))

\* Nodes reachable from the start node along listed relations.
RECURSIVE ReachFrom(_)
ReachFrom(S) ==
    LET next == S \cup { m \in UNION { Range(Get(relation_map, n)) : n \in S \cup {Root} } :
                          Listed(m) }
    IN IF next = S THEN S ELSE ReachFrom(next)

Reachable == ReachFrom({})

\* Some node of the relation map lies on a cycle.
RECURSIVE RawReach(_, _)
RawReach(map, S) ==
    LET next == S \cup UNION { Range(Get(map, n)) : n \in S }
    IN IF next = S THEN S ELSE RawReach(map, next)

HasCycle(map) == \E n \in DOMAIN map : n \in RawReach(map, Range(map[n]))

WalkDone == lw_pc = "done" /\ recursive

NoDuplicates(s) == \A i, j \in 1..Len(s) : s[i] = s[j] => i = j

\* C4 as stated: on a relation map with a cycle the walk's result holds each
\* reachable node exactly once.
C4_ExactlyOnce ==
    (WalkDone /\ HasCycle(relation_map)) =>
        \A n \in Reachable : Occurrences(tree, n) = 1

\* C4 (amended): on a relation map with a cycle the transitive walk
\* terminates (the recursion never gets deeper than the number of nodes and
\* a started walk always returns), and its result holds each node reachable
\* from the start node at least once.
C4_TerminatesAndCovers ==
    /\ (lw_pc = "walk") ~> (lw_pc = "done")
    /\ [](Len(stack) <= Cardinality(DOMAIN parent_map))
    /\ []((WalkDone /\ HasCycle(relation_map)) =>
            \A n \in Reachable : Occurrences(tree, n) >= 1)

C4_Witness ==
    /\ WalkDone
    /\ Root \in RawReach(relation_map, Range(relation_map[Root]))
    /\ \E n \in Reachable : Occurrences(tree, n) > 1

\* parent_map = {A: [B], B: [A]} with A = 1 and B = 2, walked from A.
CycleAB ==
    /\ lw_pc = "done" /\ recursive /\ direction = "parents"
    /\ DOMAIN parent_map = 1..NumNodes
    /\ parent_map[1] = <<2>> /\ parent_map[2] = <<1>>
    /\ \A n \in DOMAIN parent_map : n > 2 => parent_map[n] = <<>>
    /\ \A n \in 1..2 : res_type[n] = "model"

\* C5 as stated: the PARENTS walk of A on {A: [B], B: [A]} returns [B]
\* only, A appearing at no nesting level.
C5_OnlyB ==
    CycleAB => (Len(tree) = 1 /\ Key(tree[1]) = 2 /\ Occurrences(tree, 1) = 0)

\* C5 (amended): the PARENTS walk of A on {A: [B], B: [A]} returns the
\* one-element list [B]; B is expanded once and lists its parent A as a
\* node with no children, so A is not expanded again.
C5_BThenLeafA ==
    CycleAB =>
        /\ tree = <<node_info(2, 0, <<node_info(1, 1, <<>>)>>)>>
        /\ expand_log = <<1, 2>>

C5_Witness == CycleAB /\ Len(tree) = 1

\* C6: in one top-level walk no node has its relations expanded twice, and
\* a node is expanded where depth-first order reaches it first: every later
\* occurrence in the tree (and every occurrence of the start node) has no
\* children.
C6_ExpandedOnceAtFirstReach ==
    /\ NoDuplicates(expand_log)
    /\ WalkDone =>
        LET po == PreOrder(tree)
        IN /\ \A i, j \in 1..Len(po) : (i < j /\ po[i].id = po[j].id) => po[j].leaf
           /\ \A i \in 1..Len(po) : po[i].id = Root => po[i].leaf
           /\ \A i \in 1..Len(po) : po[i].id \in Range(expand_log)

C6_Witness ==
    /\ WalkDone
    /\ \E n \in DOMAIN parent_map : n # Root /\ Occurrences(tree, n) = 2
    /\ Len(expand_log) = NumNodes

\* C7: for a transitive query in json mode the bag of {node, level} pairs
\* of the flattened output equals the bag obtained by walking the nested
\* tree, also when the command itself returns the flattened form.
C7_FlatEqualsTree ==
    (WalkDone /\ json_output) =>
        /\ FlatBag(_flatten_tree_to_compact(tree)) = TreeBag(tree)
        /\ _count_tree_nodes(tree) > CompactThreshold => FlatBag(output) = TreeBag(tree)

C7_Witness ==
    /\ WalkDone /\ json_output
    /\ _count_tree_nodes(tree) > CompactThreshold
    /\ Len(output) > CompactThreshold
    /\ \E i \in 1..Len(output) : output[i].level > 0

\* Every resource_type listed in a command's output, at any depth.
RECURSIVE TypesIn(_)
TypesIn(t) ==
    IF t = <<>> THEN {}
    ELSE LET node == Head(t)
         IN {node.type, res_type[Key(node)]}
            \cup (IF "children" \in DOMAIN node THEN TypesIn(node.children) ELSE {})
            \cup TypesIn(Tail(t))

\* C8: the result of parents() and children(), direct or transitive, holds
\* no node whose resource_type is "test", at any depth.
C8_NoTests == lw_pc = "done" => "test" \notin TypesIn(output)

C8_Witness ==
    /\ lw_pc = "done"
    /\ \E n \in Range(Get(relation_map, Root)) : res_type[n] = "test"
    /\ output # <<>>

(***************************************************************************)
(* BigQuery CLI wrappers (utils/bigquery.py).  Names made of parts joined  *)
(* by "__" are sequences of their parts; a bq invocation is recorded with  *)
(* its sub-command and the dataset and table it names.                     *)
(***************************************************************************)
ShowScriptLen == 3

\* What run_bq_command(['version']) can do.
VersionOutcomes == {"ok", "CalledProcessError", "FileNotFoundError", "TimeoutExpired"}

\* What run_bq_command(['show', ...]) can do: "ok" prints valid JSON,
\* "JSONDecodeError" exits 0 with output json.loads rejects, the others
\* are raised by subprocess.run.
ShowOutcomes == {"ok", "CalledProcessError", "TimeoutExpired", "JSONDecodeError",
                 "FileNotFoundError"}

Transient == {"CalledProcessError", "TimeoutExpired"}

\* The schema and the project the warehouse reports for a table.
WarehouseSchema == <<[name |-> "id", type |-> "INTEGER"],
                     [name |-> "created_at", type |-> "TIMESTAMP"]>>
WarehouseProject == <<"analytics">>

\* str.lower() on the data types that occur.
lower(s) ==
    CASE s = "INTEGER" -> "integer"
      [] s = "TIMESTAMP" -> "timestamp"
      [] s = "String" -> "string"
      [] OTHER -> s

NoMetadata == [projectId |-> <<>>, datasetId |-> <<>>, tableId |-> <<>>]

\* Return value None of a gateway function.
GwNone == [found |-> FALSE, columns |-> <<>>, metadata |-> NoMetadata, raised |-> "none"]

GwColumns(cols) == [GwNone EXCEPT !.found = TRUE, !.columns = cols]
GwMetadata(md) == [GwNone EXCEPT !.found = TRUE, !.metadata = md]
GwRaised(exc) == [GwNone EXCEPT !.raised = exc]

BqCall(cmd_, dataset, table) == [cmd |-> cmd_, dataset |-> dataset, table |-> table]
VersionCall == BqCall("version", <<>>, <<>>)

\* Mutant: the query is repeated after any failure, malformed JSON
\* included, sleeping 1s, 2s, ... between attempts.
RECURSIVE run_show_retry_any(_)
run_show_retry_any(script) ==
    IF script[1] = "ok" \/ Len(script) = 1
    THEN [attempts |-> 1, sleeps |-> <<>>, out |-> script[1]]
    ELSE LET rest == run_show_retry_any(Tail(script))
         IN [attempts |-> rest.attempts + 1,
             sleeps |-> <<1>> \o [i \in 1..Len(rest.sleeps) |-> 2 * rest.sleeps[i]],
             out |-> rest.out]

\* The query phase of a gateway function: run_bq_command(['show', ...]) is
\* called once inside a try block, and every except clause returns.
run_show(script) == [attempts |-> 1, sleeps |-> <<>>, out |-> script[1]]

\* [{'name': col['name'], 'data_type': col['type'].lower()} for col in bq_schema]
ConvertSchema(bq_schema) ==
    [i \in 1..Len(bq_schema) |->
        [name |-> bq_schema[i].name, data_type |-> lower(bq_schema[i].type)]]

ShowCalls(cmd_, dataset, table, n) == [i \in 1..n |-> BqCall(cmd_, dataset, table)]

\* Mutant: a failed version check is reported but the query is still made.
fetch_columns_despite_version(dataset, table) ==
    LET q == run_show(bq_show)
    IN [result |-> IF q.out = "ok" THEN GwColumns(ConvertSchema(WarehouseSchema)) ELSE GwNone,
        calls |-> <<VersionCall>> \o ShowCalls("show --schema", dataset, table, q.attempts),
        sleeps |-> q.sleeps]

\* fetch_columns_from_bigquery_direct(dataset, table)
fetch_columns_from_bigquery_direct(dataset, table) ==
    IF bq_version # "ok"
    THEN [result |-> GwNone, calls |-> <<VersionCall>>, sleeps |-> <<>>]
    ELSE LET q == run_show(bq_show)
         IN [result |-> CASE q.out = "ok" -> GwColumns(ConvertSchema(WarehouseSchema))
                          [] q.out = "CalledProcessError" -> GwNone
                          [] q.out \in {"JSONDecodeError", "TimeoutExpired"} -> GwNone
                          [] OTHER -> GwRaised(q.out),
             calls |-> <<VersionCall>> \o ShowCalls("show --schema", dataset, table, q.attempts),
             sleeps |-> q.sleeps]

\* fetch_table_metadata_from_bigquery(dataset, table): no version check.
fetch_table_metadata_from_bigquery(dataset, table) ==
    LET q == run_show(bq_show)
    IN [result |-> IF q.out = "ok"
                   THEN GwMetadata([projectId |-> WarehouseProject, datasetId |-> dataset,
                                    tableId |-> table])
                   ELSE GwNone,
        calls |-> ShowCalls("show", dataset, table, q.attempts),
        sleeps |-> q.sleeps]

GatewayTables == { [dataset |-> <<"core">>, table |-> <<"events">>],
                   [dataset |-> <<"personal_user">>, table |-> <<"core", "events">>] }

InitGateway ==
    /\ bq_version \in VersionOutcomes
    /\ bq_show \in [1..ShowScriptLen -> ShowOutcomes]
    /\ gw_op = "none"
    /\ gw_result = GwNone
    /\ gw_calls = <<>>
    /\ gw_sleeps = <<>>

GatewayReturns(op, r) ==
    /\ gw_op = "none"
    /\ gw_op' = op
    /\ gw_result' = r.result
    /\ gw_calls' = r.calls
    /\ gw_sleeps' = r.sleeps
    /\ UNCHANGED <<bq_version, bq_show, lvars, fvars, mvars, cvars>>

FetchColumnsDirect ==
    \E t \in GatewayTables :
        GatewayReturns("fetch_columns", fetch_columns_from_bigquery_direct(t.dataset, t.table))

FetchTableMetadata ==
    \E t \in GatewayTables :
        GatewayReturns("fetch_table_metadata",
                       fetch_table_metadata_from_bigquery(t.dataset, t.table))

(***************************************************************************)
(* Gateway claims.                                                         *)
(***************************************************************************)
ShowAttempts == Cardinality({i \in 1..Len(gw_calls) : gw_calls[i].cmd # "version"})

\* The query phase was entered (the version check, if any, passed).
Queried == gw_op # "none" /\ ShowAttempts >= 1

\* C9 as stated: a gateway operation whose query fails transiently repeats
\* it, up to 3 attempts in total, sleeping 1s after the first failed attempt
\* and 2s after the second and not after the last: the attempts made are
\* those up to the first non-transient outcome, and the sleeps go with them.
C9_RetriesWithBackoff ==
    Queried =>
        LET n == IF \E i \in 1..3 : bq_show[i] \notin Transient
                 THEN CHOOSE i \in 1..3 :
                        /\ bq_show[i] \notin Transient
                        /\ \A j \in 1..(i - 1) : bq_show[j] \in Transient
                 ELSE 3
        IN /\ ShowAttempts = n
           /\ gw_sleeps = SubSeq(<<1, 2>>, 1, n - 1)

\* C10: a malformed-JSON answer to the query is not retried: the operation
\* returns None after that single query attempt and never sleeps.
C10_BadJsonNotRetried ==
    (Queried /\ bq_show[1] = "JSONDecodeError") =>
        /\ ShowAttempts = 1
        /\ gw_sleeps = <<>>
        /\ gw_result = GwNone

C10_Witness ==
    /\ Queried
    /\ bq_show[1] = "JSONDecodeError"
    /\ bq_show[2] = "ok"
    /\ gw_op = "fetch_columns"
    /\ Len(gw_calls) = 2

VersionCalls == Cardinality({i \in 1..Len(gw_calls) : gw_calls[i].cmd = "version"})

\* C12 as stated: every gateway operation checks for the bq binary exactly
\* once, before its first query; when the check fails it returns None with
\* no query attempt and no sleep.
C12_PreflightOncePerOperation ==
    gw_op # "none" =>
        /\ VersionCalls = 1
        /\ gw_calls[1].cmd = "version"
        /\ bq_version # "ok" =>
              (gw_result = GwNone /\ gw_calls = <<VersionCall>> /\ gw_sleeps = <<>>)

\* C12 (amended): fetch_columns checks for the bq binary exactly once, as
\* its first invocation, and returns None at once (no query, no sleep) when
\* the check fails; fetch_table_metadata makes no such check: with the
\* binary missing its one query attempt fails and it returns None, without
\* sleeping.
C12_PreflightOnceForColumns ==
    /\ gw_op = "fetch_columns" =>
          /\ VersionCalls = 1
          /\ gw_calls[1].cmd = "version"
          /\ bq_version # "ok" =>
                (gw_result = GwNone /\ gw_calls = <<VersionCall>> /\ gw_sleeps = <<>>)
    /\ gw_op = "fetch_table_metadata" =>
          /\ VersionCalls = 0
          /\ bq_show[1] = "FileNotFoundError" =>
                (gw_result = GwNone /\ Len(gw_calls) = 1 /\ gw_sleeps = <<>>)

C12_Witness ==
    /\ gw_op = "fetch_columns"
    /\ bq_version = "FileNotFoundError"
    /\ bq_show[1] = "ok"
    /\ gw_calls = <<VersionCall>>
    /\ gw_result = GwNone

(***************************************************************************)
(* schema() and columns() (commands.py): production manifest first, then   *)
(* the dev manifest (LEVEL 2) and BigQuery (LEVEL 3); with use_dev the dev *)
(* manifest first.                                                         *)
(***************************************************************************)
ModelNames == {<<"core", "events">>, <<"single_word">>}
NodeKinds == {"absent", "documented", "undocumented"}

\* _calculate_dev_schema() under a fixed environment.
DevSchema == <<"personal_user">>

\* The node a manifest holds for a model: the two manifests document
\* different columns.
Node(which, model_name, kind) ==
    [database |-> node_database,
     schema |-> <<"core">>,
     name |-> model_name,
     alias |-> node_alias,
     config_schema |-> config_schema,
     columns |-> IF kind # "documented" THEN <<>>
                 ELSE IF which = "prod"
                      THEN <<[name |-> "id", data_type |-> "INTEGER"]>>
                      ELSE <<[name |-> "id", data_type |-> "INTEGER"],
                             [name |-> "note", data_type |-> "String"]>>]

\* ManifestParser.get_model(model_name): the kind, "absent" for None.
get_model(manifest, model_name) == manifest[model_name]

\* ManifestParser.manifest of the dev manifest inside `try: ... except
\* Exception: pass`: a file that does not load leaves the model unset.
TryDevModel(model_name) ==
    IF dev_parses THEN get_model(dev_manifest, model_name) ELSE "absent"

\* Return value None of a lookup.
Absent == [found |-> FALSE, database |-> <<>>, schema |-> <<>>, table |-> <<>>,
           full_name |-> <<>>, columns |-> <<>>, payload |-> <<>>, raised |-> "none"]

Location(database, schema_name, table_name, full_name) ==
    [Absent EXCEPT !.found = TRUE, !.database = database, !.schema = schema_name,
                   !.table = table_name, !.full_name = full_name]

\* An exception leaving the lookup.
Raised(exception) == [Absent EXCEPT !.raised = exception]

ColumnList(cols) == [Absent EXCEPT !.found = TRUE, !.columns = cols]

\* A gateway function's return value as the lookup's return value.
FromGateway(r) == [Absent EXCEPT !.found = r.found, !.columns = r.columns,
                                 !.raised = r.raised]

NoGateway == [result |-> GwNone, calls |-> <<>>, sleeps |-> <<>>]

Outcome(res, warns, cons, op, gw) ==
    [result |-> res, warnings |-> warns, consulted |-> cons, gw_op |-> op, gw |-> gw]

Warning(type, severity, source) == [type |-> type, severity |-> severity, source |-> source]

\* Mutant: a name without "__" is taken as its own dataset.
_infer_table_parts_unsplit(model_name) ==
    [dataset |-> IF Len(model_name) = 1 THEN model_name
                 ELSE SubSeq(model_name, 1, Len(model_name) - 1),
     table |-> <<model_name[Len(model_name)]>>]

\* _infer_table_parts(model_name): the dataset is None (here <<>>) when the
\* name has no "__".
_infer_table_parts(model_name) ==
    IF Len(model_name) = 1
    THEN [dataset |-> <<>>, table |-> model_name]
    ELSE [dataset |-> SubSeq(model_name, 1, Len(model_name) - 1),
          table |-> <<model_name[Len(model_name)]>>]

\* is_modified(model_name): the table part of the name occurs in a changed
\* or new .sql path; False when the git commands cannot be run.
is_modified(model_name) ==
    git_ok /\ _infer_table_parts(model_name).table[1] \in git_changed

\* Mutant: a dev manifest that cannot be located is not reported.
_check_manifest_git_mismatch_silent(modified, dev, found) ==
    IF dev /\ ~modified
    THEN <<Warning("dev_without_changes", "warning", "")>>
    ELSE IF ~dev /\ modified
         THEN <<Warning("git_mismatch", "warning", "")>>
         ELSE <<>>

\* Mutant: the change state alone selects the warning, whatever the mode.
_check_manifest_git_mismatch_modeless(modified, dev, found) ==
    (IF ~modified
     THEN <<Warning("dev_without_changes", "warning", "")>>
     ELSE <<Warning("git_mismatch", "warning", "")>>)
    \o (IF dev /\ ~found THEN <<Warning("dev_manifest_missing", "error", "")>> ELSE <<>>)

\* _check_manifest_git_mismatch(model_name, use_dev, dev_manifest_found),
\* with modified = is_modified(model_name)
_check_manifest_git_mismatch(modified, dev, found) ==
    (IF dev /\ ~modified
     THEN <<Warning("dev_without_changes", "warning", "")>>
     ELSE IF ~dev /\ modified
          THEN <<Warning("git_mismatch", "warning", "")>>
          ELSE <<>>)
    \o (IF dev /\ ~found THEN <<Warning("dev_manifest_missing", "error", "")>> ELSE <<>>)

\* f"{a}.{b}": the two names with a dot between them, empty or not.
Dotted(a, b) == a \o <<".">> \o b

\* _build_dev_schema_result(model, model_name), DBT_DEV_TABLE_PATTERN unset.
_build_dev_schema_result(model, model_name) ==
    Location(<<>>, DevSchema, model.name, Dotted(DevSchema, model.name))

\* Table name resolution of schema() by DBT_PROD_TABLE_NAME: `name or
\* alias` for "name", `alias or name` for "alias" and for anything else.
TableName(model) ==
    IF table_name_strategy = "name"
    THEN (IF model.name # <<>> THEN model.name ELSE model.alias)
    ELSE (IF model.alias # <<>> THEN model.alias ELSE model.name)

\* Schema resolution of schema() by DBT_PROD_SCHEMA_SOURCE: the model's
\* schema for "model", `config_schema or model_schema` for "config" and for
\* anything else.
SchemaName(model) ==
    IF schema_source = "model" THEN model.schema
    ELSE IF model.config_schema # <<>> THEN model.config_schema ELSE model.schema

\* The tail of schema(): the location of a manifest node.
ProdLocation(model) ==
    Location(model.database, SchemaName(model), TableName(model),
             Dotted(model.database, Dotted(SchemaName(model), TableName(model))))

\* The commands.py copies of the gateway functions.
_fetch_table_metadata_from_bigquery(dataset, table) ==
    fetch_table_metadata_from_bigquery(dataset, table)

_fetch_columns_from_bigquery_direct(dataset, table) ==
    fetch_columns_from_bigquery_direct(dataset, table)

\* _fetch_columns_from_bigquery(manifest_path, model_name), given what the
\* manifest at manifest_path holds: after a passed version check the query's
\* TimeoutExpired and FileNotFoundError are not caught.
_fetch_columns_from_bigquery(which, manifest, model_name) ==
    LET kind == get_model(manifest, model_name)
        model == Node(which, model_name, kind)
        table_name == IF model.alias # <<>> THEN model.alias ELSE model.name
        q == run_show(bq_show)
    IN IF kind = "absent" THEN NoGateway
       ELSE IF bq_version # "ok"
            THEN [result |-> GwNone, calls |-> <<VersionCall>>, sleeps |-> <<>>]
            ELSE [result |-> CASE q.out = "ok" -> GwColumns(ConvertSchema(WarehouseSchema))
                               [] q.out \in {"CalledProcessError", "JSONDecodeError"} -> GwNone
                               [] OTHER -> GwRaised(q.out),
                  calls |-> <<VersionCall>>
                            \o ShowCalls("show --schema", model.schema, table_name, q.attempts),
                  sleeps |-> q.sleeps]

\* Mutant: the warnings of the fallback level are printed ahead of the
\* warnings collected on entry.
Printed_FallbackFirst(w, fallback_warnings) == fallback_warnings \o w

\* _print_warnings(warnings, ...) runs on entry, _print_warnings(
\* fallback_warnings, ...) once a fallback level has answered.
Printed(w, fallback_warnings) == w \o fallback_warnings

DevFallbackWarning == Warning("dev_manifest_fallback", "warning", "LEVEL 2")
BigQueryFallbackWarning(severity) == Warning("bigquery_fallback", severity, "LEVEL 3")

\* Mutant: with use_dev, a model missing from the dev manifest is looked up
\* in the production manifest.
DevFirstSchema_ThenProd(model_name, modified) ==
    LET w == _check_manifest_git_mismatch(modified, TRUE, dev_found)
        dkind == IF dev_found THEN get_model(dev_manifest, model_name) ELSE "absent"
        pkind == get_model(prod_manifest, model_name)
        cons == IF dev_found THEN <<"dev">> ELSE <<>>
    IN IF dkind # "absent"
       THEN Outcome(_build_dev_schema_result(Node("dev", model_name, dkind), model_name),
                    w, cons, "none", NoGateway)
       ELSE IF pkind # "absent"
            THEN Outcome(ProdLocation(Node("prod", model_name, pkind)), w,
                         cons \o <<"prod">>, "none", NoGateway)
            ELSE Outcome(Absent, w, cons \o <<"prod">>, "none", NoGateway)

\* schema(..., use_dev=True)
DevFirstSchema(model_name, modified) ==
    LET w == _check_manifest_git_mismatch(modified, TRUE, dev_found)
        kind == IF dev_found THEN TryDevModel(model_name) ELSE "absent"
        cons == IF dev_found THEN <<"dev">> ELSE <<>>
        q == run_show(bq_show)
        calls == [result |-> GwNone,
                  calls |-> ShowCalls("show", DevSchema, model_name, q.attempts),
                  sleeps |-> q.sleeps]
    IN IF kind # "absent"
       THEN Outcome(_build_dev_schema_result(Node("dev", model_name, kind), model_name),
                    w, cons, "none", NoGateway)
       ELSE IF fallback_bigquery
            THEN IF q.out \in {"ok", "JSONDecodeError"}
                 THEN Outcome(Location(<<>>, DevSchema, model_name, Dotted(DevSchema, model_name)),
                              w, cons, "run_bq_command", calls)
                 ELSE Outcome(Absent, w, cons, "run_bq_command", calls)
            ELSE Outcome(Absent, w, cons, "none", NoGateway)

\* Mutant: the dev manifest is tried before the production manifest.
ProdFirstSchema_TargetFirst(model_name, modified) ==
    LET w == _check_manifest_git_mismatch(modified, FALSE, FALSE)
        dkind == IF dev_found THEN get_model(dev_manifest, model_name) ELSE "absent"
        pkind == get_model(prod_manifest, model_name)
    IN IF dkind # "absent"
       THEN Outcome(_build_dev_schema_result(Node("dev", model_name, dkind), model_name),
                    Printed(w, <<DevFallbackWarning>>), <<"dev">>, "none", NoGateway)
       ELSE Outcome(IF pkind # "absent" THEN ProdLocation(Node("prod", model_name, pkind))
                    ELSE Absent,
                    w, <<"prod">>, "none", NoGateway)

\* schema(..., use_dev=False)
ProdFirstSchema(model_name, modified) ==
    LET w == _check_manifest_git_mismatch(modified, FALSE, FALSE)
        pkind == get_model(prod_manifest, model_name)
        try_dev == fallback_target /\ dev_found
        dkind == IF try_dev THEN TryDevModel(model_name) ELSE "absent"
        cons == <<"prod">> \o (IF try_dev THEN <<"dev">> ELSE <<>>)
        parts == _infer_table_parts(model_name)
        g == _fetch_table_metadata_from_bigquery(parts.dataset, parts.table)
        table_ref == g.result.metadata
    IN IF pkind # "absent"
       THEN Outcome(ProdLocation(Node("prod", model_name, pkind)), w, <<"prod">>,
                    "none", NoGateway)
       ELSE IF dkind # "absent"
            THEN Outcome(_build_dev_schema_result(Node("dev", model_name, dkind), model_name),
                         Printed(w, <<DevFallbackWarning>>), cons, "none", NoGateway)
            ELSE IF fallback_bigquery /\ parts.dataset # <<>>
                 THEN IF g.result.found
                      THEN Outcome(Location(table_ref.projectId, table_ref.datasetId,
                                            table_ref.tableId,
                                            Dotted(table_ref.projectId,
                                                   Dotted(table_ref.datasetId,
                                                          table_ref.tableId))),
                                   Printed(w, <<BigQueryFallbackWarning("warning")>>), cons,
                                   "fetch_table_metadata", g)
                      ELSE Outcome(Absent, w, cons, "fetch_table_metadata", g)
                 ELSE Outcome(Absent, w, cons, "none", NoGateway)

\* for col_name, col_data in model_columns.items() in the use_dev branch:
\* the data type is kept as documented.
DevColumns(model) ==
    [i \in 1..Len(model.columns) |->
        [name |-> model.columns[i].name, data_type |-> model.columns[i].data_type]]

\* The same loop at the end of columns(): the data type is lower-cased.
ManifestColumns(model) ==
    [i \in 1..Len(model.columns) |->
        [name |-> model.columns[i].name, data_type |-> lower(model.columns[i].data_type)]]

\* columns(..., use_dev=True)
DevFirstColumns(model_name, modified) ==
    LET w == _check_manifest_git_mismatch(modified, TRUE, dev_found)
        kind == IF dev_found THEN TryDevModel(model_name) ELSE "absent"
        cons == IF dev_found THEN <<"dev">> ELSE <<>>
        g == _fetch_columns_from_bigquery_direct(DevSchema, model_name)
    IN IF kind = "documented"
       THEN Outcome(ColumnList(DevColumns(Node("dev", model_name, kind))), w, cons,
                    "none", NoGateway)
       ELSE IF fallback_bigquery
            THEN Outcome(FromGateway(g.result), w, cons, "fetch_columns", g)
            ELSE Outcome(Absent, w, cons, "none", NoGateway)

\* columns(..., use_dev=False)
ProdFirstColumns(model_name, modified) ==
    LET w == _check_manifest_git_mismatch(modified, FALSE, FALSE)
        pkind == get_model(prod_manifest, model_name)
        try_dev == pkind = "absent" /\ fallback_target /\ dev_found
        dkind == IF try_dev THEN TryDevModel(model_name) ELSE "absent"
        cons == <<"prod">> \o (IF try_dev THEN <<"dev">> ELSE <<>>)
        fallback_warnings == IF dkind # "absent" THEN <<DevFallbackWarning>> ELSE <<>>
        model == IF pkind # "absent" THEN Node("prod", model_name, pkind)
                 ELSE Node("dev", model_name, dkind)
        parts == _infer_table_parts(model_name)
        direct == _fetch_columns_from_bigquery_direct(parts.dataset, parts.table)
        again == _fetch_columns_from_bigquery("prod", prod_manifest, model_name)
    IN IF pkind = "absent" /\ dkind = "absent"
       THEN IF fallback_bigquery /\ parts.dataset # <<>>
            THEN Outcome(FromGateway(direct.result),
                         Printed(w, <<BigQueryFallbackWarning("info")>>), cons,
                         "fetch_columns", direct)
            ELSE Outcome(Absent, w, cons, "none", NoGateway)
       ELSE IF model.columns = <<>>
            THEN Outcome(FromGateway(again.result), Printed(w, fallback_warnings),
                         cons \o <<"prod">>, "fetch_columns", again)
            ELSE Outcome(ColumnList(ManifestColumns(model)), Printed(w, fallback_warnings), cons,
                         "none", NoGateway)

\* Table names that can occur in the paths git lists.
GitTables == {_infer_table_parts(m).table[1] : m \in ModelNames}

\* Mutant: a PROD_FIRST lookup of a modified model is refused.
LookupOutcome_Gated(command, model_name, dev, modified) ==
    IF modified /\ ~dev
    THEN Outcome(Absent, _check_manifest_git_mismatch(modified, dev, dev_found), <<>>,
                 "none", NoGateway)
    ELSE IF command = "schema"
         THEN IF dev THEN DevFirstSchema(model_name, modified)
              ELSE ProdFirstSchema(model_name, modified)
         ELSE IF dev THEN DevFirstColumns(model_name, modified)
              ELSE ProdFirstColumns(model_name, modified)

\* The body of a lookup command: the use_dev branch or the default one.
LookupOutcome(command, model_name, dev, modified) ==
    IF ~dev /\ ~prod_parses
    THEN \* parser.get_model(model_name) outside any try block
         Outcome(Raised("ValueError"), _check_manifest_git_mismatch(modified, FALSE, FALSE),
                 <<"prod">>, "none", NoGateway)
    ELSE IF command = "schema"
         THEN IF dev THEN DevFirstSchema(model_name, modified)
              ELSE ProdFirstSchema(model_name, modified)
         ELSE IF dev THEN DevFirstColumns(model_name, modified)
              ELSE ProdFirstColumns(model_name, modified)

LookupScripts == {[i \in 1..ShowScriptLen |-> o] :
                    o \in {"ok", "CalledProcessError", "JSONDecodeError", "TimeoutExpired"}}

\* Nodes with a database and no alias or config schema, both naming
\* strategies unset.
DefaultNaming ==
    /\ node_database = <<"analytics">>
    /\ node_alias = <<>>
    /\ config_schema = <<>>
    /\ schema_source = "config_or_model"
    /\ table_name_strategy = "alias_or_name"

\* The part of the environment that schema() and columns() with the default
\* settings do not depend on.
DefaultEnvironment ==
    /\ glob_matches = 0
    /\ prod_parses = TRUE
    /\ dev_parses = TRUE
    /\ DefaultNaming

InitLookup ==
    /\ DefaultEnvironment
    /\ prod_manifest \in [ModelNames -> NodeKinds]
    /\ dev_found \in BOOLEAN
    /\ dev_manifest \in IF dev_found THEN [ModelNames -> NodeKinds]
                        ELSE {[m \in ModelNames |-> "absent"]}
    /\ fallback_target \in BOOLEAN
    /\ fallback_bigquery \in BOOLEAN
    /\ git_ok \in BOOLEAN
    /\ git_changed \in SUBSET GitTables
    /\ bq_version \in {"ok", "FileNotFoundError"}
    /\ bq_show \in LookupScripts
    /\ cmd = "none"
    /\ req_model = <<>>
    /\ use_dev = FALSE
    /\ result = Absent
    /\ warnings = <<>>
    /\ consulted = <<>>
    /\ gw_op = "none"
    /\ gw_result = GwNone
    /\ gw_calls = <<>>
    /\ gw_sleeps = <<>>

Returns(command, model_name, dev, o) ==
    /\ cmd = "none"
    /\ cmd' = command
    /\ req_model' = model_name
    /\ use_dev' = dev
    /\ result' = o.result
    /\ warnings' = o.warnings
    /\ consulted' = o.consulted
    /\ gw_op' = o.gw_op
    /\ gw_result' = o.gw.result
    /\ gw_calls' = o.gw.calls
    /\ gw_sleeps' = o.gw.sleeps
    /\ UNCHANGED <<prod_manifest, dev_manifest, dev_found, fallback_target,
                   fallback_bigquery, git_ok, git_changed, bq_version, bq_show, evars,
                   lvars, mvars, cvars>>

schema ==
    \E model_name \in ModelNames, dev \in BOOLEAN :
        Returns("schema", model_name, dev,
                LookupOutcome("schema", model_name, dev, is_modified(model_name)))

columns ==
    \E model_name \in ModelNames, dev \in BOOLEAN :
        Returns("columns", model_name, dev,
                LookupOutcome("columns", model_name, dev, is_modified(model_name)))

(***************************************************************************)
(* sql(), path(), deps(), parents() and children(): the resolution of the  *)
(* model in the manifests (commands.py 1402-1738, 2005-2088, 2175-2258).   *)
(* Model names here hold no ".", so the schema.table search of path() is   *)
(* not entered.                                                            *)
(***************************************************************************)
\* Bound on the number of files the glob of path() can match.
MaxMatches == 2

\* The value a manifest-only command returns: which field of which
\* manifest's node, or the file the glob found.
Payload(field, which) == [Absent EXCEPT !.found = TRUE, !.payload = <<field, which>>]

ManifestOnly(res, warns, cons) == Outcome(res, warns, cons, "none", NoGateway)

\* The use_dev branch shared by sql(), path(), deps(), parents(), children():
\* only the dev manifest is read and there is no further level.
DevFirstManifestOnly(field, model_name, modified) ==
    LET w == _check_manifest_git_mismatch(modified, TRUE, dev_found)
        kind == IF dev_found THEN get_model(dev_manifest, model_name) ELSE "absent"
        cons == IF dev_found THEN <<"dev">> ELSE <<>>
    IN IF kind # "absent"
       THEN ManifestOnly(Payload(field, "dev"), w, cons)
       ELSE ManifestOnly(Absent, w, cons)

\* sql(..., use_dev=False, raw)
ProdFirstSql(field, model_name, modified) ==
    LET w == _check_manifest_git_mismatch(modified, FALSE, FALSE)
        pkind == get_model(prod_manifest, model_name)
        try_dev == pkind = "absent" /\ fallback_target /\ dev_found
        dkind == IF try_dev THEN get_model(dev_manifest, model_name) ELSE "absent"
        cons == <<"prod">> \o (IF try_dev THEN <<"dev">> ELSE <<>>)
    IN IF pkind # "absent" THEN ManifestOnly(Payload(field, "prod"), w, cons)
       ELSE IF dkind # "absent"
            THEN ManifestOnly(Payload(field, "dev"), Printed(w, <<DevFallbackWarning>>), cons)
            ELSE ManifestOnly(Absent, w, cons)

\* path(..., use_dev=False): after the two manifests, with
\* DBT_FALLBACK_BIGQUERY on, the models directory is searched for the table
\* part of the name; exactly one match is returned.
ProdFirstPath(model_name, modified) ==
    LET m == ProdFirstSql("original_file_path", model_name, modified)
    IN IF m.result.found \/ ~fallback_bigquery THEN m
       ELSE ManifestOnly(IF glob_matches = 1 THEN Payload("glob", "models") ELSE Absent,
                         m.warnings, m.consulted \o <<"models">>)

\* deps(), parents(), children() with use_dev=False: the production
\* manifest only.
ProdFirstDirect(field, model_name, modified) ==
    LET w == _check_manifest_git_mismatch(modified, FALSE, FALSE)
        pkind == get_model(prod_manifest, model_name)
    IN IF pkind # "absent" THEN ManifestOnly(Payload(field, "prod"), w, <<"prod">>)
       ELSE ManifestOnly(Absent, w, <<"prod">>)

ManifestOnlyCommands == {"sql", "path", "deps", "parents", "children"}

ManifestOnlyOutcome(command, field, model_name, dev, modified) ==
    IF dev THEN DevFirstManifestOnly(field, model_name, modified)
    ELSE CASE command = "sql" -> ProdFirstSql(field, model_name, modified)
           [] command = "path" -> ProdFirstPath(model_name, modified)
           [] OTHER -> ProdFirstDirect(field, model_name, modified)

InitManifestOnly ==
    /\ prod_manifest \in [ModelNames -> NodeKinds]
    /\ dev_found \in BOOLEAN
    /\ dev_manifest \in IF dev_found THEN [ModelNames -> NodeKinds]
                        ELSE {[m \in ModelNames |-> "absent"]}
    /\ fallback_target \in BOOLEAN
    /\ fallback_bigquery \in BOOLEAN
    /\ git_ok \in BOOLEAN
    /\ git_changed \in SUBSET GitTables
    /\ glob_matches \in 0..MaxMatches
    /\ prod_parses = TRUE
    /\ dev_parses = TRUE
    /\ DefaultNaming
    /\ cmd = "none"
    /\ req_model = <<>>
    /\ use_dev = FALSE
    /\ result = Absent
    /\ warnings = <<>>
    /\ consulted = <<>>

sql ==
    \E model_name \in ModelNames, dev \in BOOLEAN, raw \in BOOLEAN :
        Returns("sql", model_name, dev,
                ManifestOnlyOutcome("sql", IF raw THEN "raw_code" ELSE "compiled_code",
                                    model_name, dev, is_modified(model_name)))

path ==
    \E model_name \in ModelNames, dev \in BOOLEAN :
        Returns("path", model_name, dev,
                ManifestOnlyOutcome("path", "original_file_path", model_name, dev,
                                    is_modified(model_name)))

deps ==
    \E model_name \in ModelNames, dev \in BOOLEAN :
        Returns("deps", model_name, dev,
                ManifestOnlyOutcome("deps", "depends_on", model_name, dev,
                                    is_modified(model_name)))

\* parents() and children() up to the point where the model is found; the
\* walk that follows is the lineage component above.
lineage ==
    \E command \in {"parents", "children"}, model_name \in ModelNames, dev \in BOOLEAN :
        Returns(command, model_name, dev,
                ManifestOnlyOutcome(command, IF command = "parents" THEN "parent_map"
                                             ELSE "child_map",
                                    model_name, dev, is_modified(model_name)))

\* Manifest files that may fail to load, the warehouse answering.
InitParse ==
    /\ prod_manifest \in [ModelNames -> NodeKinds]
    /\ dev_found \in BOOLEAN
    /\ dev_manifest \in IF dev_found THEN [ModelNames -> NodeKinds]
                        ELSE {[m \in ModelNames |-> "absent"]}
    /\ fallback_target \in BOOLEAN
    /\ fallback_bigquery \in BOOLEAN
    /\ prod_parses \in BOOLEAN
    /\ dev_parses \in BOOLEAN
    /\ DefaultNaming
    /\ glob_matches = 0
    /\ git_ok = TRUE
    /\ git_changed = {}
    /\ cmd = "none"
    /\ req_model = <<>>
    /\ use_dev = FALSE
    /\ result = Absent
    /\ warnings = <<>>
    /\ consulted = <<>>

\* Manifest nodes with or without database, alias and config schema, and
\* any value of the two naming strategies.

InitNaming ==
    /\ prod_manifest \in [ModelNames -> NodeKinds]
    /\ dev_found \in BOOLEAN
    /\ dev_manifest \in IF dev_found THEN [ModelNames -> NodeKinds]
                        ELSE {[m \in ModelNames |-> "absent"]}
    /\ fallback_target \in BOOLEAN
    /\ fallback_bigquery \in BOOLEAN
    /\ node_database \in {<<>>, <<"analytics">>}
    /\ node_alias \in {<<>>, <<"events_v2">>}
    /\ config_schema \in {<<>>, <<"reporting">>}
    /\ schema_source \in {"config_or_model", "model", "config", "invalid_strategy"}
    /\ table_name_strategy \in {"alias_or_name", "name", "alias", "invalid_strategy"}
    /\ glob_matches = 0
    /\ prod_parses = TRUE
    /\ dev_parses = TRUE
    /\ git_ok = TRUE
    /\ git_changed = {}
    /\ cmd = "none"
    /\ req_model = <<>>
    /\ use_dev = FALSE
    /\ result = Absent
    /\ warnings = <<>>
    /\ consulted = <<>>

(***************************************************************************)
(* Lookup claims.                                                          *)
(***************************************************************************)
HasWarning(type) == \E i \in 1..Len(warnings) : warnings[i].type = type

NoFallbackWarnings == ~HasWarning("dev_manifest_fallback") /\ ~HasWarning("bigquery_fallback")

ProdFirstLookup == cmd # "none" /\ ~use_dev
DevFirstLookup == cmd # "none" /\ use_dev

InProd == get_model(prod_manifest, req_model) # "absent"
InDev == dev_found /\ get_model(dev_manifest, req_model) # "absent"

WarehouseAnswers == bq_version = "ok" /\ bq_show[1] = "ok"

\* C1 as stated: in a production-first lookup with both fallback levels
\* enabled, a model in the dev manifest but not in the production manifest
\* gets the result the dev manifest gives (a present one, the warehouse
\* filling in columns the dev manifest does not document), with a
\* dev_manifest_fallback warning; with the dev level disabled the dev
\* manifest is not read and the result is the warehouse's or absent.
C1_DevManifestServes ==
    /\ (ProdFirstLookup /\ ~InProd /\ InDev /\ fallback_target /\ fallback_bigquery) =>
          /\ HasWarning("dev_manifest_fallback")
          /\ cmd = "schema" =>
                result = _build_dev_schema_result(
                            Node("dev", req_model, get_model(dev_manifest, req_model)),
                            req_model)
          /\ (cmd = "columns" /\ get_model(dev_manifest, req_model) = "documented") =>
                result = ColumnList(ManifestColumns(Node("dev", req_model, "documented")))
          /\ (cmd = "columns" /\ WarehouseAnswers) => result.found
    /\ (ProdFirstLookup /\ ~InProd /\ InDev /\ ~fallback_target) =>
          /\ "dev" \notin Range(consulted)
          /\ ~HasWarning("dev_manifest_fallback")
          /\ result.found => (fallback_bigquery /\ gw_calls # <<>>)

\* C2: a lookup with use_dev reads only the dev manifest and then, if the
\* BigQuery fallback is enabled, the warehouse; it never reads the
\* production manifest, so a model only the production manifest holds is
\* absent when the BigQuery fallback is disabled.
C2_DevFirstSkipsProd ==
    DevFirstLookup =>
        /\ "prod" \notin Range(consulted)
        /\ consulted = IF dev_found THEN <<"dev">> ELSE <<>>
        /\ gw_calls # <<>> => fallback_bigquery
        /\ (InProd /\ ~InDev /\ ~fallback_bigquery) => ~result.found

C2_Witness ==
    /\ DevFirstLookup
    /\ cmd = "schema"
    /\ InProd /\ dev_found /\ ~InDev /\ ~fallback_bigquery
    /\ consulted = <<"dev">>
    /\ ~result.found

\* C3: a production-first lookup of a model the production manifest holds
\* returns the result built from the production node without reading the
\* dev manifest, and prints neither a dev_manifest_fallback nor a
\* bigquery_fallback warning.
C3_ProdServesWithoutWarnings ==
    (ProdFirstLookup /\ InProd) =>
        LET model == Node("prod", req_model, get_model(prod_manifest, req_model))
        IN /\ NoFallbackWarnings
           /\ consulted[1] = "prod"
           /\ "dev" \notin Range(consulted)
           /\ cmd = "schema" => (result = ProdLocation(model) /\ gw_calls = <<>>)
           /\ (cmd = "columns" /\ model.columns # <<>>) =>
                 (result = ColumnList(ManifestColumns(model)) /\ gw_calls = <<>>)

C3_Witness ==
    /\ ProdFirstLookup
    /\ cmd = "schema"
    /\ InProd /\ InDev /\ fallback_target /\ fallback_bigquery
    /\ result.found
    /\ result.schema = <<"core">>

\* The last bq invocation of the lookup did not exit 0 with valid JSON.
LastCallFailed ==
    LET last == gw_calls[Len(gw_calls)]
    IN IF last.cmd = "version" THEN bq_version # "ok" ELSE bq_show[1] # "ok"

\* C11 as stated: no warehouse failure reaches the caller of a lookup as an
\* exception: whatever bq does (non-zero exit, timeout, missing binary,
\* malformed JSON) the gateway function returns, and a failed call gives
\* None.
C11_FailuresBecomeNone ==
    cmd # "none" =>
        /\ result.raised = "none"
        /\ gw_result.raised = "none"
        /\ (gw_calls # <<>> /\ LastCallFailed) => ~gw_result.found

NoSeparator == Len(req_model) = 1

C14_WarehouseWarningSeverity ==
    (ProdFirstLookup /\ ~InProd /\ ~(fallback_target /\ InDev) /\ gw_result.found) =>
        /\ result.found
        /\ \E i \in 1..Len(warnings) :
              /\ warnings[i].type = "bigquery_fallback"
              /\ warnings[i].severity = "warning"
              /\ warnings[i].source = "LEVEL 3"

ChangeDetectionTypes == {"git_mismatch", "dev_without_changes"}
FallbackLevelTypes == {"dev_manifest_fallback", "bigquery_fallback"}

\* C16: in the warnings of one lookup every change-detection warning
\* (git_mismatch, dev_without_changes) stands before every fallback-level
\* warning (dev_manifest_fallback, bigquery_fallback); both kinds may occur
\* in the same lookup.
C16_ChangeDetectionFirst ==
    \A i, j \in 1..Len(warnings) :
        (warnings[i].type \in ChangeDetectionTypes
         /\ warnings[j].type \in FallbackLevelTypes) => i < j

C16_Witness ==
    /\ HasWarning("git_mismatch")
    /\ HasWarning("dev_manifest_fallback")
    /\ result.found

\* C17: a lookup with use_dev whose dev manifest cannot be located carries a
\* dev_manifest_missing warning of severity "error", still returns to its
\* caller, and still consults the warehouse when the warehouse level is
\* enabled (serving the answer when the warehouse has one).
C17_DevManifestMissing ==
    (DevFirstLookup /\ ~dev_found) =>
        /\ \E i \in 1..Len(warnings) :
              /\ warnings[i].type = "dev_manifest_missing"
              /\ warnings[i].severity = "error"
        /\ result.raised = "none"
        /\ consulted = <<>>
        /\ fallback_bigquery <=> gw_calls # <<>>
        /\ (fallback_bigquery /\ WarehouseAnswers) => result.found

C17_Witness ==
    /\ DevFirstLookup /\ ~dev_found
    /\ fallback_bigquery
    /\ HasWarning("dev_manifest_missing")
    /\ gw_calls # <<>>
    /\ result.found

\* C18: the change-detection warning of a lookup depends on (is_modified,
\* mode) only: git_mismatch is present exactly when the model is modified and
\* the lookup is PROD_FIRST, dev_without_changes exactly when the model is
\* not modified and the lookup is DEV_FIRST, whatever manifest or warehouse
\* served the answer.
C18_ChangeDetectionByModeAndSignal ==
    cmd # "none" =>
        /\ HasWarning("git_mismatch") <=> (is_modified(req_model) /\ ~use_dev)
        /\ HasWarning("dev_without_changes") <=> (~is_modified(req_model) /\ use_dev)

C18_Witness ==
    /\ ProdFirstLookup
    /\ is_modified(req_model)
    /\ HasWarning("git_mismatch")
    /\ gw_result.found
    /\ result.found

\* C19: is_modified never gates a lookup: what the lookup returns, the
\* manifests it reads and the warehouse calls it makes are the same whether
\* the model counts as modified or not; a failing git command counts as
\* not modified. Only the warnings depend on the signal.
C19_SignalNeverGates ==
    cmd # "none" =>
        /\ \A b \in BOOLEAN :
              LET o == LookupOutcome(cmd, req_model, use_dev, b)
              IN /\ o.result = result
                 /\ o.consulted = consulted
                 /\ o.gw_op = gw_op
                 /\ o.gw.result = gw_result
                 /\ o.gw.calls = gw_calls
        /\ ~git_ok => ~is_modified(req_model)
        /\ LookupOutcome(cmd, req_model, use_dev, is_modified(req_model)).warnings = warnings

C19_Witness ==
    /\ ProdFirstLookup
    /\ is_modified(req_model)
    /\ InProd
    /\ result.found
    /\ LookupOutcome(cmd, req_model, use_dev, FALSE).warnings # warnings

C19_WitnessGitFails ==
    /\ cmd # "none"
    /\ ~git_ok
    /\ git_changed # {}
    /\ result.found

\* The node of the manifest that serves the lookup just made, "absent" when
\* no manifest read holds the model.
ServingKind ==
    IF use_dev THEN (IF dev_found THEN get_model(dev_manifest, req_model) ELSE "absent")
    ELSE IF InProd THEN get_model(prod_manifest, req_model)
         ELSE IF fallback_target /\ dev_found THEN get_model(dev_manifest, req_model)
              ELSE "absent"

\* C20 as stated: a columns lookup of a model that a manifest holds with an
\* empty column map asks the warehouse for the columns directly and never
\* takes the not-found path: with the warehouse answering, the columns are
\* returned.
C20_EmptyColumnsAskWarehouse ==
    (cmd = "columns" /\ fallback_bigquery /\ ServingKind = "undocumented") =>
        /\ gw_calls # <<>>
        /\ WarehouseAnswers => result.found

(***************************************************************************)
(* Manifest location (manifest/finder.py, cli.py get_manifest_path).       *)
(***************************************************************************)
\* Number of ancestor directories of the working directory.
CwdDepth == 1
\* for _ in range(10) in _search_upward
SearchLevels == 10

\* A manifest.json path: the directory it is looked up from (the working
\* directory or its level-th ancestor, $DBT_PROJECT_PATH, or a path named
\* in full by the user or by DBT_MANIFEST_PATH) and the state directory.
ManifestPath(base, level, state_dir) == [base |-> base, level |-> level, dir |-> state_dir]
NoPath == ManifestPath("none", 0, "")
ExplicitPath == ManifestPath("--manifest", 0, "")
EnvPath == ManifestPath("DBT_MANIFEST_PATH", 0, "")
\* DBT_PROD_STATE_PATH unset
prod_state_path == ".dbt-state"
AllPaths ==
    {ExplicitPath, EnvPath}
    \cup {ManifestPath("cwd", k, d) : k \in 0..CwdDepth, d \in {prod_state_path, "target"}}
    \cup {ManifestPath("DBT_PROJECT_PATH", 0, d) : d \in {prod_state_path, "target"}}

Located(found_path) ==
    [outcome |-> "returned", path |-> found_path, effective_use_dev |-> FALSE]
Raises(exception) == [outcome |-> exception, path |-> NoPath, effective_use_dev |-> FALSE]
NoArguments == [manifest_path |-> NoPath, use_dev |-> FALSE]

\* ManifestFinder._search_upward(prod_state_path), from the level-th
\* ancestor on, with `left` iterations of the loop remaining.
RECURSIVE _search_upward(_, _)
_search_upward(level, left) ==
    IF left = 0 THEN NoPath
    ELSE IF ManifestPath("cwd", level, prod_state_path) \in fs
         THEN ManifestPath("cwd", level, prod_state_path)
         ELSE IF ManifestPath("cwd", level, "target") \in fs
              THEN ManifestPath("cwd", level, "target")
              ELSE IF level = CwdDepth THEN NoPath
                   ELSE _search_upward(level + 1, left - 1)

\* Mutant: ./target/manifest.json is tried before the production manifest
\* of the working directory.
FindSearch_TargetFirst ==
    LET cwd_prod == ManifestPath("cwd", 0, prod_state_path)
        cwd_dev == ManifestPath("cwd", 0, "target")
        project_prod == ManifestPath("DBT_PROJECT_PATH", 0, prod_state_path)
        project_dev == ManifestPath("DBT_PROJECT_PATH", 0, "target")
        upward_path == _search_upward(0, SearchLevels)
    IN IF env_manifest /\ EnvPath \in fs THEN Located(EnvPath)
       ELSE IF cwd_dev \in fs THEN Located(cwd_dev)
       ELSE IF cwd_prod \in fs THEN Located(cwd_prod)
       ELSE IF env_project /\ project_prod \in fs THEN Located(project_prod)
       ELSE IF env_project /\ project_dev \in fs THEN Located(project_dev)
       ELSE IF upward_path # NoPath THEN Located(upward_path)
       ELSE Raises("FileNotFoundError")

\* The body of ManifestFinder.find(): priorities 1 to 8.
FindSearch ==
    LET cwd_prod == ManifestPath("cwd", 0, prod_state_path)
        cwd_dev == ManifestPath("cwd", 0, "target")
        project_prod == ManifestPath("DBT_PROJECT_PATH", 0, prod_state_path)
        project_dev == ManifestPath("DBT_PROJECT_PATH", 0, "target")
        upward_path == _search_upward(0, SearchLevels)
        fallback == ManifestPath("cwd", 0, "target")
    IN IF env_manifest /\ EnvPath \in fs THEN Located(EnvPath)
       ELSE IF cwd_prod \in fs THEN Located(cwd_prod)
       ELSE IF cwd_dev \in fs THEN Located(cwd_dev)
       ELSE IF env_project /\ project_prod \in fs THEN Located(project_prod)
       ELSE IF env_project /\ project_dev \in fs THEN Located(project_dev)
       ELSE IF upward_path # NoPath THEN Located(upward_path)
       ELSE IF fallback \in fs THEN Located(fallback)
       ELSE Raises("FileNotFoundError")

\* def find() -> str: the keyword parameters the function declares.
FindParameters == {}

\* A call ManifestFinder.find(**keywords): a keyword that find() does not
\* declare raises TypeError before the body runs.
ManifestFinder_find(keywords) ==
    IF keywords \subseteq FindParameters THEN FindSearch ELSE Raises("TypeError")

\* get_manifest_path(manifest_path, use_dev) of cli.py
GetManifestPath(manifest_path, dev) ==
    LET effective_use_dev == IF manifest_path # NoPath /\ dev THEN FALSE ELSE dev
        r == ManifestFinder_find({"explicit_path", "use_dev"})
    IN IF r.outcome = "returned"
       THEN [r EXCEPT !.effective_use_dev = effective_use_dev]
       ELSE IF r.outcome = "FileNotFoundError" THEN Raises("typer.Exit")
            ELSE r

InitLocate ==
    /\ fs \in SUBSET AllPaths
    /\ env_manifest \in BOOLEAN
    /\ env_project \in BOOLEAN
    /\ loc_op = "none"
    /\ loc_args = NoArguments
    /\ loc_result = Raises("none")

LocateReturns(op, args, r) ==
    /\ loc_op = "none"
    /\ loc_op' = op
    /\ loc_args' = args
    /\ loc_result' = r
    /\ UNCHANGED <<fs, env_manifest, env_project, lvars, gvars, fvars, cvars>>

\* ManifestFinder.find()
find == LocateReturns("find", NoArguments, ManifestFinder_find({}))

\* get_manifest_path(manifest, use_dev), as every CLI command calls it
get_manifest_path ==
    \E manifest_path \in {NoPath, ExplicitPath}, dev \in BOOLEAN :
        LocateReturns("get_manifest_path", [manifest_path |-> manifest_path, use_dev |-> dev],
                      GetManifestPath(manifest_path, dev))

\* C15 as stated: locating with an explicit path X and use_dev returns X
\* when X exists, and otherwise fails as not found without returning the
\* dev default or any other searched location.
C15_ExplicitPathOrFailure ==
    (loc_op = "get_manifest_path" /\ loc_args.manifest_path = ExplicitPath
     /\ loc_args.use_dev) =>
        IF ExplicitPath \in fs
        THEN loc_result.outcome = "returned" /\ loc_result.path = ExplicitPath
        ELSE loc_result.outcome \in {"FileNotFoundError", "typer.Exit"}

\* The model of the lookup just made is in neither manifest.
InNeitherManifest ==
    /\ get_model(prod_manifest, req_model) = "absent"
    /\ get_model(dev_manifest, req_model) = "absent"

\* C21 as stated: a sql, path, parents or children lookup of a model that is
\* in neither the production nor the dev manifest returns an absent result
\* and makes no attempt at a third level.
C21_ManifestOnlyFailsImmediately ==
    (cmd \in {"sql", "path", "parents", "children"} /\ InNeitherManifest) =>
        /\ ~result.found
        /\ gw_calls = <<>>
        /\ Range(consulted) \subseteq {"prod", "dev"}

\* C22 as stated: a PROD_FIRST deps lookup with DBT_FALLBACK_TARGET on, of a
\* model missing from the production manifest and held by the dev manifest,
\* returns the dependencies recorded in the dev manifest.
C22_DepsFallsBackToDev ==
    (cmd = "deps" /\ ~use_dev /\ fallback_target /\ ~InProd /\ InDev) =>
        /\ result.found
        /\ result.payload = <<"depends_on", "dev">>
        /\ consulted = <<"prod", "dev">>

\* The lookup just made read a manifest file that does not load.
ReadBrokenManifest ==
    \/ "prod" \in Range(consulted) /\ ~prod_parses
    \/ "dev" \in Range(consulted) /\ ~dev_parses

\* C23 as stated: a lookup that reads a located manifest file which does not
\* load ends with the parser's exception reaching its caller; no further
\* level is tried.
C23_ParseErrorPropagates ==
    (cmd \in {"schema", "columns"} /\ ReadBrokenManifest) =>
        /\ result.raised # "none"
        /\ gw_calls = <<>>

(***************************************************************************)
(* The parser cache: @lru_cache(maxsize=2) around ManifestParser(path),    *)
(* whose manifest is read from the file on first access and kept by the    *)
(* object.  The files load.                                                *)
(***************************************************************************)
\* Number of loads made in one process.
MaxLoads == 5
\* @lru_cache(maxsize=2)
maxsize == 2

\* The production path, the dev path and one more manifest path.
CachePaths == {"prod", "dev", "other"}

CachedAt(cache, manifest_path) ==
    {i \in 1..Len(cache) : cache[i].path = manifest_path}

Without(cache, i) == SubSeq(cache, 1, i - 1) \o SubSeq(cache, i + 1, Len(cache))

\* Mutant: a hit does not renew the entry, the oldest insertion is evicted.
lru_cache_fifo(cache, manifest_path, object) ==
    IF CachedAt(cache, manifest_path) # {} THEN cache
    ELSE LET added == Append(cache, [path |-> manifest_path, object |-> object])
         IN IF Len(added) > maxsize THEN Tail(added) ELSE added

\* functools.lru_cache: a hit moves the entry to the most recent end, a miss
\* stores the new object and drops the least recently used entry beyond
\* maxsize.
lru_cache(cache, manifest_path, object) ==
    IF CachedAt(cache, manifest_path) # {}
    THEN LET i == CHOOSE k \in CachedAt(cache, manifest_path) : TRUE
         IN Append(Without(cache, i), cache[i])
    ELSE LET added == Append(cache, [path |-> manifest_path, object |-> object])
         IN IF Len(added) > maxsize THEN Tail(added) ELSE added

InitCache ==
    /\ parser_cache = <<>>
    /\ next_object = 1
    /\ load_log = <<>>

\* _get_cached_parser(manifest_path) followed by the access to .manifest
\* that every caller makes.
_get_cached_parser ==
    \E manifest_path \in CachePaths :
        LET hit == CachedAt(parser_cache, manifest_path)
            object == IF hit # {} THEN parser_cache[CHOOSE k \in hit : TRUE].object
                      ELSE next_object
        IN /\ Len(load_log) < MaxLoads
           /\ parser_cache' = lru_cache(parser_cache, manifest_path, next_object)
           /\ next_object' = IF hit # {} THEN next_object ELSE next_object + 1
           /\ load_log' = Append(load_log, [path |-> manifest_path, object |-> object,
                                            read |-> hit = {}])
           /\ UNCHANGED <<lvars, gvars, fvars, mvars>>

\* C24 as stated: once a path was loaded, every later load of it returns the
\* same object and does not read the file again, whatever was loaded in
\* between.
C24_CachedForever ==
    \A i, j \in 1..Len(load_log) :
        (i < j /\ load_log[i].path = load_log[j].path) =>
            /\ load_log[j].object = load_log[i].object
            /\ ~load_log[j].read

\* Paths other than that of load j loaded after load i and before load j.
LoadedBetween(i, j) ==
    {load_log[k].path : k \in (i + 1)..(j - 1)} \ {load_log[j].path}

\* C24 amended: a later load of a path returns the same object without
\* reading the file again when fewer than maxsize other paths were loaded
\* since the previous load of it; after maxsize - 1 other paths the entry is
\* gone and the file is read again into a new object.
C24_CachedWithinCapacity ==
    \A i, j \in 1..Len(load_log) :
        (/\ i < j
         /\ load_log[i].path = load_log[j].path
         /\ \A k \in (i + 1)..(j - 1) : load_log[k].path # load_log[j].path) =>
            IF Cardinality(LoadedBetween(i, j)) < maxsize
            THEN load_log[j].object = load_log[i].object /\ ~load_log[j].read
            ELSE load_log[j].object # load_log[i].object /\ load_log[j].read

C24_Witness ==
    /\ Len(load_log) = 4
    /\ load_log[1].path = "prod"
    /\ load_log[2].path = "dev"
    /\ load_log[3].path = "prod"
    /\ load_log[4].path = "dev"
    /\ ~load_log[3].read
    /\ ~load_log[4].read

\* The names of a sequence joined by dots.
RECURSIVE DotJoin(_)
DotJoin(names) ==
    IF names = <<>> THEN <<>>
    ELSE IF Len(names) = 1 THEN names[1]
         ELSE names[1] \o <<".">> \o DotJoin(Tail(names))

NonEmpty(name) == name # <<>>

\* C25 as stated: the full_name of every location a lookup returns is the
\* dot-join of the non-empty ones among database, schema and table, in that
\* order; with an empty database it is schema.table, without a leading dot.
C25_FullNameIsDotJoin ==
    (cmd = "schema" /\ result.found) =>
        result.full_name =
            DotJoin(SelectSeq(<<result.database, result.schema, result.table>>, NonEmpty))

\* The location schema() returns for the production node of the lookup just
\* made when both naming strategies are unset.
DefaultLocation ==
    LET model == Node("prod", req_model, get_model(prod_manifest, req_model))
        table_name == IF model.alias # <<>> THEN model.alias ELSE model.name
        schema_name == IF model.config_schema # <<>> THEN model.config_schema
                       ELSE model.schema
    IN Location(model.database, schema_name, table_name,
                Dotted(model.database, Dotted(schema_name, table_name)))

InvalidStrategy ==
    \/ schema_source \notin {"config_or_model", "model", "config"}
    \/ table_name_strategy \notin {"alias_or_name", "name", "alias"}

\* C26 as stated: with an invalid value of a naming strategy the lookup does
\* not raise, resolves as under the default strategy, and carries a
\* configuration warning.
C26_InvalidStrategyWarns ==
    (cmd = "schema" /\ ~use_dev /\ InProd /\ InvalidStrategy) =>
        /\ result.raised = "none"
        /\ (schema_source \notin {"model", "config"}
            /\ table_name_strategy \notin {"name", "alias"}) => result = DefaultLocation
        /\ \E i \in 1..Len(warnings) :
              warnings[i].type \notin ChangeDetectionTypes \cup FallbackLevelTypes
                                      \cup {"dev_manifest_missing"}

\* The part of C26 the code keeps: no exception, and the location of the
\* default strategy when neither variable holds a valid non-default value.
C26_InvalidStrategyDefaults ==
    (cmd = "schema" /\ ~use_dev /\ InProd /\ InvalidStrategy) =>
        /\ result.raised = "none"
        /\ (schema_source \notin {"model", "config"}
            /\ table_name_strategy \notin {"name", "alias"}) => result = DefaultLocation

\* C27 as stated: a PROD_FIRST schema lookup served by the dev manifest
\* returns that node's own schema, and as table its config.alias, or its
\* name when it has no alias.
C27_DevFallbackUsesNodeLocation ==
    (cmd = "schema" /\ ~use_dev /\ ~InProd /\ fallback_target /\ InDev) =>
        LET model == Node("dev", req_model, get_model(dev_manifest, req_model))
        IN /\ result.found
           /\ HasWarning("dev_manifest_fallback")
           /\ result.schema = model.schema
           /\ result.table = IF model.alias # <<>> THEN model.alias ELSE model.name

\* The locations find() tests in the current environment.
SearchedPaths ==
    {p \in AllPaths : \/ p.base = "cwd"
                      \/ p.base = "DBT_PROJECT_PATH" /\ env_project}

EnvPathWins == env_manifest /\ EnvPath \in fs

C29_DisabledWarehouseNeverCalled ==
    (cmd # "none" /\ ~fallback_bigquery) => gw_calls = <<>>

\* C30 as stated: a bigquery_fallback warning is printed only by a lookup
\* that the warehouse served; when the warehouse call yields nothing the
\* PROD_FIRST lookup returns an absent result and has printed no
\* bigquery_fallback warning.
C30_WarningOnlyWhenServed ==
    cmd # "none" =>
        /\ HasWarning("bigquery_fallback") => (result.found /\ gw_result.found)
        /\ (~use_dev /\ gw_calls # <<>> /\ ~gw_result.found) =>
              (~result.found /\ ~HasWarning("bigquery_fallback"))

(***************************************************************************)
(* Specifications.  Each one runs one component and holds the variables of *)
(* the others at their idle values.                                        *)
(***************************************************************************)
IdleGateway ==
    /\ bq_version = "ok"
    /\ bq_show = [i \in 1..ShowScriptLen |-> "ok"]
    /\ gw_op = "none"
    /\ gw_result = GwNone
    /\ gw_calls = <<>>
    /\ gw_sleeps = <<>>

IdleLookup ==
    /\ DefaultEnvironment
    /\ prod_manifest = [m \in ModelNames |-> "absent"]
    /\ dev_manifest = [m \in ModelNames |-> "absent"]
    /\ dev_found = FALSE
    /\ fallback_target = TRUE
    /\ fallback_bigquery = TRUE
    /\ git_ok = TRUE
    /\ git_changed = {}
    /\ cmd = "none"
    /\ req_model = <<>>
    /\ use_dev = FALSE
    /\ result = Absent
    /\ warnings = <<>>
    /\ consulted = <<>>

IdleLineage ==
    /\ parent_map = <<>>
    /\ child_map = <<>>
    /\ res_type = <<>>
    /\ direction = "none"
    /\ recursive = FALSE
    /\ json_output = FALSE
    /\ visited = {}
    /\ stack = <<>>
    /\ expand_log = <<>>
    /\ tree = <<>>
    /\ output = <<>>
    /\ lw_pc = "idle"

IdleCache == InitCache

IdleLocate ==
    /\ fs = {}
    /\ env_manifest = FALSE
    /\ env_project = FALSE
    /\ loc_op = "none"
    /\ loc_args = NoArguments
    /\ loc_result = Raises("none")

InitL == InitLineage /\ IdleGateway /\ IdleLookup /\ IdleLocate /\ IdleCache

NextL ==
    \/ parents
    \/ children
    \/ SkipMissing
    \/ SkipTest
    \/ AppendLeaf
    \/ Descend
    \/ ReturnToCaller
    \/ ReturnTree

\* The walk is sequential code: it keeps running until it returns.
SpecLineage == InitL /\ [][NextL]_vars /\ WF_vars(NextL)

InitG == InitGateway /\ IdleLineage /\ IdleLookup /\ IdleLocate /\ IdleCache

NextG == FetchColumnsDirect \/ FetchTableMetadata

SpecGateway == InitG /\ [][NextG]_vars /\ WF_vars(NextG)

Init == InitLookup /\ IdleLineage /\ IdleLocate /\ IdleCache

Next == schema \/ columns

Spec == Init /\ [][Next]_vars /\ WF_vars(Next)

InitM == InitLocate /\ IdleLineage /\ IdleGateway /\ IdleLookup /\ IdleCache

NextM == find \/ get_manifest_path

SpecLocate == InitM /\ [][NextM]_vars /\ WF_vars(NextM)

InitO == InitManifestOnly /\ IdleGateway /\ IdleLineage /\ IdleLocate /\ IdleCache

NextO == sql \/ path \/ deps \/ lineage

SpecManifestOnly == InitO /\ [][NextO]_vars /\ WF_vars(NextO)

InitP == InitParse /\ IdleGateway /\ IdleLineage /\ IdleLocate /\ IdleCache

NextP == schema \/ columns

SpecParse == InitP /\ [][NextP]_vars /\ WF_vars(NextP)

InitC == InitCache /\ IdleLineage /\ IdleGateway /\ IdleLookup /\ IdleLocate

NextC == _get_cached_parser

SpecCache == InitC /\ [][NextC]_vars /\ WF_vars(NextC)

InitN == InitNaming /\ IdleGateway /\ IdleLineage /\ IdleLocate /\ IdleCache

NextN == schema

SpecNaming == InitN /\ [][NextN]_vars /\ WF_vars(NextN)

====
